---- MODULE Spec2Model ----
(***************************************************************************)
(* A model of the Flat Background of antelope_background                   *)
(* (engine/flat_background.py) and of its query surface                    *)
(* (background/implementation.py).                                         *)
(*                                                                         *)
(* A FlatBackground holds three orderings (fg, bg, ex) of TermRefs, the   *)
(* sparse matrices Af, Ad, Bf and, when the database is complete, A and B. *)
(* Indices are 0-based as in the source.  Matrix coefficients are small    *)
(* integers: every float operation of the source is then exact.  A sparse  *)
(* matrix is modelled by its mathematical content (no explicitly stored    *)
(* zeros), and nonzero() lists its entries in row order.                    *)
(***************************************************************************)
EXTENDS Integers, Sequences, FiniteSets, TLC

VARIABLES
    fg, bg, ex,             \* self._fg, self._bg, self._ex
    af, ad, bf,             \* self._af, self._ad, self._bf
    A, B,                   \* self._A, self._B (None when lci_db is None)
    lu,                     \* self._lu
    fg_index, bg_index, ex_index,
    context_map,            \* FlatBackground.context_map
    nfactor,                \* history: number of calls of factorized()
    disk,                   \* the files written so far, by path
    _flat,                  \* TarjanBackgroundImplementation: self._flat is not None
    _archive,               \* the class of self._archive
    last                    \* the last call: its arguments, what it yielded, how it ended

obj == <<fg, bg, ex, af, ad, bf, A, B, fg_index, bg_index, ex_index>>
\* what lies outside the FlatBackground object
env == <<disk, _flat, _archive>>
vars == <<fg, bg, ex, af, ad, bf, A, B, lu, fg_index, bg_index, ex_index,
          context_map, nfactor, disk, _flat, _archive, last>>

(***************************************************************************)
(* Bounds of the model.                                                    *)
(***************************************************************************)
\* number of matrix entries in which an initial system differs from its base
MaxEdit == 1
\* largest absolute value a vector entry may take in a modelled solve
MaxAbs == 6
\* the explicit iteration limit a caller passes as count=
MaxCount == 3
\* number of node expansions of foreground() that are followed
MaxExpand == 7
\* longest demand list handed to sys_lci
MaxDemand == 3

(***************************************************************************)
(* Program constants.                                                      *)
(***************************************************************************)
\* _iterate_a_matrix(..., count=100, ...)
DefaultCount == 100
\* _iterate_a_matrix(..., threshold=1e-8, ...), as the reciprocal
DefaultThresholdInv == 100000000
CONTEXT_STATUS_ == "new"
_FLATTEN_AF == FALSE
ORDERING_SUFFIX == ".ordering.json.gz"

(***************************************************************************)
(* Optional values: None is the empty tuple, a present value a 1-tuple.    *)
(***************************************************************************)
None == <<>>
Some(v) == <<v>>
Val(o) == o[1]

comp_dir(d) == IF d = "Input" THEN "Output" ELSE "Input"

Abs(v) == IF v < 0 THEN 0 - v ELSE v

RECURSIVE SumTo(_, _)
\* f[0] + ... + f[k]
SumTo(f, k) == IF k < 0 THEN 0 ELSE f[k] + SumTo(f, k - 1)

RECURSIVE SeqSum(_)
SeqSum(s) == IF s = <<>> THEN 0 ELSE Head(s) + SeqSum(Tail(s))

RECURSIVE SetToSeq(_)
\* the elements of a set of integers in increasing order
SetToSeq(S) ==
    IF S = {} THEN <<>>
    ELSE LET lo == CHOOSE i \in S : \A j \in S : i <= j
         IN <<lo>> \o SetToSeq(S \ {lo})

(***************************************************************************)
(* Sparse matrices: a shape and the coefficient of every position.         *)
(***************************************************************************)
\* the coefficients are held as an explicit table
Mat(r, c, d) == [shape |-> <<r, c>>, d |-> d @@ <<>>]
NRows(m) == m.shape[1]
NCols(m) == m.shape[2]
Zeros(r, c) == Mat(r, c, [x \in (0 .. r - 1) \X (0 .. c - 1) |-> 0])
\* csr_matrix(((1,), ((inx,), (0,))), shape=(dim, 1))
_unit_column_vector(dim, inx) ==
    Mat(dim, 1, [x \in (0 .. dim - 1) \X {0} |-> IF x[1] = inx THEN 1 ELSE 0])
\* m[:, j]
Col(m, j) == Mat(NRows(m), 1, [x \in (0 .. NRows(m) - 1) \X {0} |-> m.d[<<x[1], j>>]])
\* a.dot(b)
Dot(a, b) ==
    Mat(NRows(a), NCols(b),
        [x \in (0 .. NRows(a) - 1) \X (0 .. NCols(b) - 1) |->
            SumTo([k \in 0 .. NCols(a) - 1 |-> a.d[<<x[1], k>>] * b.d[<<k, x[2]>>]],
                  NCols(a) - 1)])
Plus(a, b) == Mat(NRows(a), NCols(a), [x \in DOMAIN a.d |-> a.d[x] + b.d[x]])
\* eye(n) - a
EyeMinus(a) ==
    Mat(NRows(a), NCols(a),
        [x \in DOMAIN a.d |-> (IF x[1] = x[2] THEN 1 ELSE 0) - a.d[x]])
\* sum(abs(y).data) of a column vector
L1(y) == SumTo([i \in 0 .. NRows(y) - 1 |-> Abs(y.d[<<i, 0>>])], NRows(y) - 1)
\* the rows of a column vector's nonzero(), in the order csr lists them
NonzeroRows(v) == SetToSeq({i \in 0 .. NRows(v) - 1 : v.d[<<i, 0>>] # 0})
\* the rows of column i's nonzero(), read where the columns of row i are meant
NonzeroColsOfColumn(m, i) ==
    SetToSeq({j \in 0 .. NCols(m) - 1 : <<j, i>> \in DOMAIN m.d /\ m.d[<<j, i>>] # 0})
\* m[i, :].nonzero()[1]: the columns of row i's nonzero()
NonzeroCols(m, i) == SetToSeq({j \in 0 .. NCols(m) - 1 : m.d[<<i, j>>] # 0})
WithinCap(v) == \A x \in DOMAIN v.d : Abs(v.d[x]) <= MaxAbs

(***************************************************************************)
(* The solvers.                                                            *)
(***************************************************************************)
RemoveAt(s, k) == SubSeq(s, 1, k - 1) \o SubSeq(s, k + 1, Len(s))

RECURSIVE Det(_, _, _)
\* determinant of the coefficients d on the rows rs and the columns cs
Det(d, rs, cs) ==
    IF rs = <<>> THEN 1
    ELSE SeqSum([k \in 1 .. Len(cs) |->
            IF d[<<Head(rs), cs[k]>>] = 0 THEN 0
            ELSE (IF k % 2 = 1 THEN 1 ELSE -1) * d[<<Head(rs), cs[k]>>]
                 * Det(d, Tail(rs), RemoveAt(cs, k))])

\* Cramer's rule on the determinant det of m and the determinants num[i] of m
\* with column i replaced by y; singular is set when m has no inverse and
\* integral when the solution is a vector of integers
Cramer(n, det, num) ==
    [singular |-> det = 0,
     integral |-> det # 0 /\ \A i \in 0 .. n - 1 : (Abs(num[i]) % Abs(det)) = 0,
     x |-> IF det = 0 THEN Zeros(n, 1)
           ELSE Mat(n, 1, [x \in (0 .. n - 1) \X {0} |->
                     (IF det < 0 THEN -1 ELSE 1)
                     * (IF num[x[1]] < 0 THEN 0 - (Abs(num[x[1]]) \div Abs(det))
                        ELSE num[x[1]] \div Abs(det))])]

Idx(m) == [k \in 1 .. NRows(m) |-> k - 1]

\* The x with m.x = y, as a sparse LU solve (spsolve, factorized) computes it
DirectSolve(m, y) ==
    Cramer(NRows(m), Det(m.d, Idx(m), Idx(m)),
           [i \in 0 .. NRows(m) - 1 |->
               Det([x \in DOMAIN m.d |-> IF x[2] = i THEN y.d[<<x[1], 0>>] ELSE m.d[x]],
                   Idx(m), Idx(m))])

\* inc / sumtotal < threshold, the threshold given as its reciprocal
BelowThreshold(inc, sumtotal, thrInv) == inc <= (sumtotal - 1) \div thrInv

\* one pass of a loop that does not count its passes
IterStepUncounted(a, st, thrInv, count) ==
    LET total1 == Plus(st.total, st.y)
        y1 == Dot(a, st.y)
        inc == L1(y1)
        stop == CASE ~(WithinCap(total1) /\ WithinCap(y1)) -> "cap"
                  [] inc = 0 -> "exact"
                  [] BelowThreshold(inc, st.sumtotal + inc, thrInv) -> "threshold"
                  [] OTHER -> ""
    IN CASE stop = "" -> [y |-> y1, total |-> total1, mycount |-> st.mycount + 1,
                          sumtotal |-> st.sumtotal + inc, stop |-> ""]
         [] OTHER -> [st EXCEPT !.total = total1, !.stop = stop]

\* one pass of the while loop of _iterate_a_matrix; stop names the exit taken
\* ("" to go round again; "cap" when a value leaves the range followed)
IterStep(a, st, thrInv, count) ==
    LET total1 == Plus(st.total, st.y)
        y1 == Dot(a, st.y)
        inc == L1(y1)
        stop == CASE ~(st.mycount < count) -> "count"
                  [] ~(WithinCap(total1) /\ WithinCap(y1)) -> "cap"
                  [] inc = 0 -> "exact"
                  [] BelowThreshold(inc, st.sumtotal + inc, thrInv) -> "threshold"
                  [] OTHER -> ""
    IN CASE stop = "count" -> [st EXCEPT !.stop = stop]
         [] stop = "" -> [y |-> y1, total |-> total1, mycount |-> st.mycount + 1,
                          sumtotal |-> st.sumtotal + inc, stop |-> ""]
         [] OTHER -> [st EXCEPT !.total = total1, !.stop = stop]

RECURSIVE IterLoop(_, _, _, _)
\* the while loop of _iterate_a_matrix
IterLoop(a, st, thrInv, count) ==
    IF st.stop # "" THEN st ELSE IterLoop(a, IterStep(a, st, thrInv, count), thrInv, count)

\* what _iterate_a_matrix prints
IterPrinted(quiet, r) ==
    IF quiet THEN <<>>
    ELSE (IF r.stop = "exact" THEN <<[text |-> "exact result", n |-> 0]>> ELSE <<>>)
         \o <<[text |-> "completed %d iterations", n |-> r.mycount]>>

\* The results of _iterate_a_matrix: err names the exception raised ("" for
\* none), x is the value returned, products counts the matrix-vector products
\* made, ok is FALSE when the result is outside the range followed.
NoSolve(err, x, method) ==
    [ok |-> TRUE, err |-> err, x |-> x, method |-> method, stop |-> "", products |-> 0,
     printed |-> <<>>]
SolveResult(s) ==
    [ok |-> s.integral /\ WithinCap(s.x), err |-> "", x |-> s.x, method |-> "spsolve",
     stop |-> "", products |-> 0, printed |-> <<>>]
\* the result of a solve that returns its last term where the sum is meant
IterResultLastTerm(quiet, r) ==
    [ok |-> r.stop # "cap", err |-> "", x |-> r.y, method |-> "iterative",
     stop |-> r.stop, products |-> IF r.stop = "count" THEN r.mycount ELSE r.mycount + 1,
     printed |-> IterPrinted(quiet, r)]

IterResult(quiet, r) ==
    [ok |-> r.stop # "cap", err |-> "", x |-> r.total, method |-> "iterative",
     stop |-> r.stop, products |-> IF r.stop = "count" THEN r.mycount ELSE r.mycount + 1,
     printed |-> IterPrinted(quiet, r)]

\* _iterate_a_matrix(a, y, threshold, count, quiet, solver); a is None or Some(matrix)
_iterate_a_matrix(a, y, thrInv, count, quiet, solver) ==
    IF solver = "spsolve"
    THEN IF a = None THEN NoSolve("AttributeError", y, "spsolve")
         ELSE SolveResult(DirectSolve(EyeMinus(Val(a)), y))
    ELSE IF a = None THEN NoSolve("", Zeros(NRows(y), NCols(y)), "none")
    ELSE IterResult(quiet, IterLoop(Val(a), [y |-> y, total |-> Zeros(NRows(y), NCols(y)),
                                             mycount |-> 0, sumtotal |-> 0, stop |-> ""],
                                    thrInv, count))

(***************************************************************************)
(* TermRefs and the construction of a FlatBackground.                      *)
(***************************************************************************)
\* the scc_id 0 that _make_term_ref gives a product flow in no non-trivial SCC,
\* written as a string so that it compares with the refs of processes
SccSentinel == "0"
\* TermRef(flow_ref, direction, term_ref, scc_id): the sentinel is held as None
TermRef(t) ==
    [flow_ref |-> t[1], direction |-> t[2], term_ref |-> t[3],
     scc_id |-> IF t[4] = SccSentinel THEN None ELSE Some(t[4])]
\* tuple(f) of a TermRef f, the form _write_ordering persists
TermTuple(r) ==
    <<r.flow_ref, r.direction, r.term_ref, IF r.scc_id = None THEN SccSentinel ELSE Val(r.scc_id)>>

\* tuple([TermRef(*f) for f in refs]), indexed from 0
TermRefs(refs) == [i \in 0 .. Len(refs) - 1 |-> TermRef(refs[i + 1])]

PfKey(k) == <<k.term_ref, k.flow_ref>>
ExKey(k) == <<k.term_ref, k.flow_ref, k.direction>>
\* {key(k): i for i, k in enumerate(order)}: a later entry replaces an earlier one
PfIndex(order) ==
    [key \in {PfKey(order[i]) : i \in DOMAIN order} |->
        CHOOSE i \in DOMAIN order :
            PfKey(order[i]) = key /\ \A j \in DOMAIN order : PfKey(order[j]) = key => j <= i]
ExIndex(order) ==
    [key \in {ExKey(order[i]) : i \in DOMAIN order} |->
        CHOOSE i \in DOMAIN order :
            ExKey(order[i]) = key /\ \A j \in DOMAIN order : ExKey(order[j]) = key => j <= i]

\* FlatBackground.__init__: the fields of the new object
Construct(foreground, background, exterior, af_, ad_, bf_, lci_db) ==
    [fg |-> TermRefs(foreground), bg |-> TermRefs(background), ex |-> TermRefs(exterior),
     af |-> af_, ad |-> ad_, bf |-> bf_,
     A |-> IF lci_db = None THEN None ELSE Some(Val(lci_db)[1]),
     B |-> IF lci_db = None THEN None ELSE Some(Val(lci_db)[2]),
     lu |-> None,
     fg_index |-> PfIndex(TermRefs(foreground)),
     bg_index |-> PfIndex(TermRefs(background)),
     ex_index |-> ExIndex(TermRefs(exterior))]

(***************************************************************************)
(* The systems a run starts from.  The product flows and exterior flows    *)
(* are fixed; p1 has two reference flows and f0 has two providers, so a    *)
(* lookup has to match both the process and the flow.                      *)
(***************************************************************************)
FgFlows == << <<"f0", "Output", "p0">>, <<"f1", "Input", "p1">>, <<"f2", "Output", "p1">> >>
BgFlows == << <<"f0", "Output", "q0">>, <<"g1", "Input", "q1">> >>
ExFlows == << <<"e0", "Output", "air; urban">>, <<"e0", "Input", "water">> >>
pdim0 == Len(FgFlows)
ndim0 == Len(BgFlows)
mdim0 == Len(ExFlows)

\* the matrix with the given non-zero entries
MatOf(r, c, nz) ==
    Mat(r, c, [x \in (0 .. r - 1) \X (0 .. c - 1) |-> IF x \in DOMAIN nz THEN nz[x] ELSE 0])

EmptySystem ==
    [af |-> Zeros(pdim0, pdim0), ad |-> Zeros(ndim0, pdim0), bf |-> Zeros(mdim0, pdim0),
     A |-> Zeros(ndim0, ndim0), B |-> Zeros(mdim0, ndim0)]
\* p0 takes f1 and gives f2 of p1; p1 draws on the background; q0 draws on q1
LinkedSystem ==
    [af |-> MatOf(pdim0, pdim0, (<<1, 0>> :> 1) @@ (<<2, 0>> :> -1)),
     ad |-> MatOf(ndim0, pdim0, (<<0, 1>> :> 1) @@ (<<1, 2>> :> -1)),
     bf |-> MatOf(mdim0, pdim0, (<<0, 0>> :> 1) @@ (<<1, 2>> :> 1)),
     A |-> MatOf(ndim0, ndim0, (<<1, 0>> :> 1)),
     B |-> MatOf(mdim0, ndim0, (<<0, 0>> :> 1) @@ (<<1, 1>> :> -1))]
Bases == {EmptySystem, LinkedSystem}

Slots ==
    {<<"af", x>> : x \in DOMAIN EmptySystem.af.d} \cup {<<"ad", x>> : x \in DOMAIN EmptySystem.ad.d}
    \cup {<<"bf", x>> : x \in DOMAIN EmptySystem.bf.d} \cup {<<"A", x>> : x \in DOMAIN EmptySystem.A.d}
    \cup {<<"B", x>> : x \in DOMAIN EmptySystem.B.d}

RECURSIVE EditSets(_)
\* the sets of at most k slots
EditSets(k) ==
    IF k = 0 THEN {{}}
    ELSE LET prev == EditSets(k - 1) IN prev \cup {S \cup {x} : S \in prev, x \in Slots}

\* an edited entry: a coefficient is removed, a zero becomes +1 or -1
Toggle(v, x) == IF v # 0 THEN 0 ELSE IF (x[1] + x[2]) % 2 = 0 THEN 1 ELSE -1
EditMat(m, name, E) ==
    Mat(NRows(m), NCols(m), [x \in DOMAIN m.d |-> IF <<name, x>> \in E THEN Toggle(m.d[x], x) ELSE m.d[x]])
Edited(base, E) ==
    [af |-> EditMat(base.af, "af", E), ad |-> EditMat(base.ad, "ad", E),
     bf |-> EditMat(base.bf, "bf", E), A |-> EditMat(base.A, "A", E),
     B |-> EditMat(base.B, "B", E)]

RECURSIVE ReachFrom(_, _, _)
\* the nodes reached from S in at most k steps along the dependencies of m
ReachFrom(m, S, k) ==
    IF k = 0 THEN S
    ELSE ReachFrom(m, S \cup {j \in 0 .. NRows(m) - 1 : \E i \in S : m.d[<<j, i>>] # 0}, k - 1)
Descendants(m, i) ==
    ReachFrom(m, {j \in 0 .. NRows(m) - 1 : m.d[<<j, i>>] # 0}, NRows(m))
\* _make_term_ref: the process of the first product flow of i's non-trivial SCC
SccId(m, refs, i) ==
    IF i \notin Descendants(m, i) THEN SccSentinel
    ELSE LET scc == {j \in Descendants(m, i) : i \in Descendants(m, j)}
             rep == CHOOSE j \in scc : \A k \in scc : j <= k
         IN refs[rep + 1][3]
WithScc(m, refs) == [k \in 1 .. Len(refs) |-> refs[k] \o <<SccId(m, refs, k - 1)>>]

\* from_background_engine: the object built for a system, with or without lci_db
Built(sys, complete) ==
    Construct(WithScc(sys.af, FgFlows), WithScc(sys.A, BgFlows),
              [k \in 1 .. Len(ExFlows) |-> ExFlows[k] \o <<SccSentinel>>],
              sys.af, sys.ad, sys.bf,
              IF complete THEN Some(<<sys.A, sys.B>>) ELSE None)

NoCall == [op |-> "none"]

\* the object c has just been constructed
FreshObject(c) ==
    /\ fg = c.fg /\ bg = c.bg /\ ex = c.ex
    /\ af = c.af /\ ad = c.ad /\ bf = c.bf
    /\ A = c.A /\ B = c.B /\ lu = c.lu
    /\ fg_index = c.fg_index /\ bg_index = c.bg_index /\ ex_index = c.ex_index
    /\ context_map = None
    /\ nfactor = 0
    /\ last = NoCall
\* the object is used directly: nothing is on disk, no query surface is in play
Fresh(c) ==
    /\ FreshObject(c)
    /\ disk = <<>>
    /\ _flat = TRUE
    /\ _archive = "TarjanBackground"

Init ==
    \E base \in Bases, E \in EditSets(MaxEdit), complete \in BOOLEAN :
        Fresh(Built(Edited(base, E), complete))

(***************************************************************************)
(* map_contexts                                                            *)
(***************************************************************************)
\* tuple(term_ref.split('; '))
SplitContext(term_ref) == IF term_ref = "air; urban" THEN <<"air", "urban">> ELSE <<term_ref>>
\* index._tm[index.get_context(term)]: the canonical context of a compartment path
CanonicalContext(term) == IF term = <<"air", "urban">> THEN "urban air" ELSE term[Len(term)]

\* map_contexts(index): the value context_map is given
MappedContexts ==
    Some([t \in {ex[i].term_ref : i \in DOMAIN ex} |-> CanonicalContext(SplitContext(t))])

MapContexts ==
    /\ last = NoCall
    /\ context_map' = MappedContexts
    /\ last' = [op |-> "map_contexts"]
    /\ UNCHANGED <<obj, lu, nfactor, env>>

(***************************************************************************)
(* Structural queries.  A generator is modelled by what it has yielded     *)
(* (out) when it ends, and by the exception that ended it (err, "" when    *)
(* it returned).  Every item yielded carries the ExchDef x and, for the    *)
(* reader of a trace, the matrix entry it was made from.                   *)
(***************************************************************************)
pdim == Cardinality(DOMAIN fg)
ndim == Cardinality(DOMAIN bg)
mdim == Cardinality(DOMAIN ex)
_complete == A # None /\ B # None

NoTerm == [kind |-> "none"]
ProcTerm(p) == [kind |-> "process", ref |-> p]
CtxTerm(c) == [kind |-> "context", ref |-> c]
TupleTerm(t) == [kind |-> "tuple", ref |-> t]
ExchDef(process, flow, direction, term, value) ==
    [process |-> process, flow |-> flow, direction |-> direction, term |-> term, value |-> value]
Item(x, kind, row, col, coef) == [x |-> x, kind |-> kind, row |-> row, col |-> col, coef |-> coef]

Returned(out) == [out |-> out, err |-> ""]
Raised(out, e) == [out |-> out, err |-> e]
\* one generator run after another
Then(g, h) == IF g.err # "" THEN g ELSE [out |-> g.out \o h.out, err |-> h.err]

is_in_background(process, ref_flow) == <<process, ref_flow>> \in DOMAIN bg_index

\* the ExchDef of one interior dependency, as _generate_exch_defs makes it
InteriorDefFlipped(node_ref, term, dat) ==
    IF dat < 0
    THEN ExchDef(node_ref, term.flow_ref, comp_dir(term.direction), ProcTerm(term.term_ref), 0 - dat)
    ELSE ExchDef(node_ref, term.flow_ref, term.direction, ProcTerm(term.term_ref), dat)
InteriorDef(node_ref, term, dat) ==
    IF dat < 0
    THEN ExchDef(node_ref, term.flow_ref, term.direction, ProcTerm(term.term_ref), 0 - dat)
    ELSE ExchDef(node_ref, term.flow_ref, comp_dir(term.direction), ProcTerm(term.term_ref), dat)

\* _generate_exch_defs(node_ref, data_vec, enumeration)
_generate_exch_defs(node_ref, data_vec, enumeration, kind, col) ==
    LET rows == NonzeroRows(data_vec)
    IN Returned([i \in 1 .. Len(rows) |->
            Item(InteriorDef(node_ref, enumeration[rows[i]], data_vec.d[<<rows[i], 0>>]),
                 kind, rows[i], col, data_vec.d[<<rows[i], 0>>])])

\* _generate_em_defs(node_ref, data_vec)
_generate_em_defs(node_ref, data_vec, col) ==
    LET rows == NonzeroRows(data_vec)
    IN IF rows = <<>> THEN Returned(<<>>)
       ELSE IF CONTEXT_STATUS_ # "compat" /\ context_map = None
       THEN Raised(<<>>, "AttributeError")
       ELSE Returned([i \in 1 .. Len(rows) |->
               LET term == ex[rows[i]]
               IN Item(ExchDef(node_ref, term.flow_ref, comp_dir(term.direction),
                               IF CONTEXT_STATUS_ = "compat" THEN NoTerm
                               ELSE IF term.term_ref \in DOMAIN Val(context_map)
                               THEN CtxTerm(Val(context_map)[term.term_ref])
                               ELSE NoTerm,
                               data_vec.d[<<rows[i], 0>>]),
                       "em", rows[i], col, data_vec.d[<<rows[i], 0>>])])

\* is_in_scc(process, ref_flow): [ret, err]
is_in_scc(process, ref_flow) ==
    LET key == <<process, ref_flow>>
    IN IF is_in_background(process, ref_flow)
       THEN [ret |-> bg[bg_index[key]].scc_id # None, err |-> ""]
       ELSE IF key \in DOMAIN fg_index
       THEN [ret |-> fg[fg_index[key]].scc_id # None, err |-> ""]
       ELSE [ret |-> FALSE, err |-> "KeyError"]

\* dependencies(process, ref_flow)
dependencies(process, ref_flow) ==
    LET key == <<process, ref_flow>>
    IN IF is_in_background(process, ref_flow)
       THEN IF A = None THEN Raised(<<>>, "TypeError")
            ELSE _generate_exch_defs(process, Col(Val(A), bg_index[key]), bg, "A", bg_index[key])
       ELSE IF key \notin DOMAIN fg_index THEN Raised(<<>>, "KeyError")
       ELSE Then(_generate_exch_defs(process, Col(af, fg_index[key]), fg, "af", fg_index[key]),
                 _generate_exch_defs(process, Col(ad, fg_index[key]), bg, "ad", fg_index[key]))

\* exterior(process, ref_flow)
exterior(process, ref_flow) ==
    LET key == <<process, ref_flow>>
    IN IF is_in_background(process, ref_flow)
       THEN IF B = None THEN Raised(<<>>, "TypeError")
            ELSE _generate_em_defs(process, Col(Val(B), bg_index[key]), bg_index[key])
       ELSE IF key \notin DOMAIN fg_index THEN Raised(<<>>, "KeyError")
       ELSE _generate_em_defs(process, Col(bf, fg_index[key]), fg_index[key])

\* consumers(process, ref_flow): the TermRefs yielded
consumers(process, ref_flow) ==
    LET key == <<process, ref_flow>>
    IN IF key \notin DOMAIN fg_index /\ key \notin DOMAIN bg_index
       THEN Raised(<<>>, "KeyError")
       ELSE IF is_in_background(process, ref_flow)
       THEN LET idx == IF key \in DOMAIN fg_index THEN fg_index[key] ELSE bg_index[key]
                fgs == NonzeroCols(ad, idx)
                first == [i \in 1 .. Len(fgs) |-> fg[fgs[i]]]
            IN IF A = None THEN Raised(first, "TypeError")
               ELSE LET bgs == NonzeroCols(Val(A), idx)
                    IN Returned(first \o [i \in 1 .. Len(bgs) |-> bg[bgs[i]]])
       ELSE LET fgs == NonzeroCols(af, fg_index[key])
            IN Returned([i \in 1 .. Len(fgs) |-> fg[fgs[i]]])

(***************************************************************************)
(* foreground(process, ref_flow, traverse, exterior)                       *)
(***************************************************************************)
\* the ExchDef of one foreground link
FgLinkDef(node, term, dat) ==
    IF dat < 0
    THEN ExchDef(node.term_ref, term.flow_ref, term.direction, ProcTerm(term.term_ref), 0 - dat)
    ELSE ExchDef(node.term_ref, term.flow_ref, comp_dir(term.direction), ProcTerm(term.term_ref), dat)

\* the children appended to q when a child met again is never appended
EnqueuedOnce(rows, cols_seen, traverse) == SelectSeq(rows, LAMBDA r : r \notin cols_seen)

\* the children the for loop appends to q (no seen-set test: every child)
EnqueuedAlways(rows, cols_seen, traverse) == rows
\* the children the for loop appends to q
Enqueued(rows, cols_seen, traverse) ==
    SelectSeq(rows, LAMBDA r : traverse \/ r \notin cols_seen)

RECURSIVE FgLoop(_, _, _, _, _, _, _)
\* the while loop over q.  expanded lists the indices popped, enq the indices
\* put on q; done is FALSE when the loop is cut after MaxExpand expansions.
FgLoop(q, cols_seen, out, expanded, enq, traverse, exterior_) ==
    IF q = <<>> THEN [out |-> out, err |-> "", done |-> TRUE, expanded |-> expanded, enq |-> enq]
    ELSE IF Len(expanded) >= MaxExpand
    THEN [out |-> out, err |-> "", done |-> FALSE, expanded |-> expanded, enq |-> enq]
    ELSE LET current == Head(q)
             node == fg[current]
             fg_deps == Col(af, current)
             rows == NonzeroRows(fg_deps)
             more == Enqueued(rows, cols_seen, traverse)
             links == [i \in 1 .. Len(rows) |->
                          Item(FgLinkDef(node, fg[rows[i]], fg_deps.d[<<rows[i], 0>>]),
                               "af", rows[i], current, fg_deps.d[<<rows[i], 0>>])]
             deps == _generate_exch_defs(node.term_ref, Col(ad, current), bg, "ad", current)
             ems == IF exterior_ THEN _generate_em_defs(node.term_ref, Col(bf, current), current)
                    ELSE Returned(<<>>)
             out1 == out \o links \o deps.out \o ems.out
         IN IF ems.err # ""
            THEN [out |-> out1, err |-> ems.err, done |-> TRUE,
                  expanded |-> Append(expanded, current), enq |-> enq \o more]
            ELSE FgLoop(Tail(q) \o more, cols_seen \cup {rows[i] : i \in 1 .. Len(rows)}, out1,
                        Append(expanded, current), enq \o more, traverse, exterior_)

foreground(process, ref_flow, traverse, exterior_) ==
    LET key == <<process, ref_flow>>
        printed == IF _FLATTEN_AF = FALSE /\ traverse
                   THEN <<[text |-> "Warning: traversal of foreground SCC will never terminate",
                           n |-> 0]>>
                   ELSE <<>>
    IN IF key \notin DOMAIN fg_index
       THEN [out |-> <<>>, err |-> "KeyError", done |-> TRUE, expanded |-> <<>>, enq |-> <<>>,
             printed |-> printed]
       ELSE LET index == fg_index[key]
                root == Item(ExchDef(process, ref_flow, fg[index].direction, NoTerm, 1),
                             "root", index, index, 1)
                r == FgLoop(<<index>>, {index}, <<root>>, <<>>, <<index>>, traverse, exterior_)
            IN [out |-> r.out, err |-> r.err, done |-> r.done, expanded |-> r.expanded,
                enq |-> r.enq, printed |-> printed]

(***************************************************************************)
(* emitters(flow_ref, direction, context); direction and context are       *)
(* optional.  The product flows are yielded from a set.                    *)
(***************************************************************************)
EligibleEx(flow_ref, direction, context) ==
    {idx \in DOMAIN ex :
        /\ ex[idx].flow_ref = flow_ref
        /\ direction # None => ex[idx].direction = Val(direction)
        /\ context # None =>
              /\ ex[idx].term_ref \in DOMAIN Val(context_map)
              /\ Val(context_map)[ex[idx].term_ref] = Val(context)}

emitters(flow_ref, direction, context) ==
    LET cand == {idx \in DOMAIN ex :
                    /\ ex[idx].flow_ref = flow_ref
                    /\ direction # None => ex[idx].direction = Val(direction)}
    IN IF context # None /\ cand # {} /\ context_map = None
       THEN [yielded |-> {}, err |-> "AttributeError"]
       ELSE LET elig == EligibleEx(flow_ref, direction, context)
            IN IF elig # {} /\ B = None
               THEN [yielded |-> {}, err |-> "TypeError"]
               ELSE [yielded |->
                        {fg[i] : i \in {j \in DOMAIN fg : \E idx \in elig : bf.d[<<idx, j>>] # 0}}
                        \cup {bg[i] : i \in {j \in DOMAIN bg :
                                                \E idx \in elig : Val(B).d[<<idx, j>>] # 0}},
                     err |-> ""]

(***************************************************************************)
(* Numerical queries.  kw stands for the keyword arguments a caller may    *)
(* pass on: solver ("none" when absent), count, threshold (its            *)
(* reciprocal) and quiet (None when absent).  In a result, ok is FALSE     *)
(* when the solve leaves the integers or the range the model follows; a    *)
(* call is modelled only when ok.                                          *)
(***************************************************************************)
Kw(solver, count) == [solver |-> solver, count |-> count, thrInv |-> DefaultThresholdInv,
                      quiet |-> None]

\* _x_tilde(process, ref_flow, quiet=True, **kwargs), for a key of fg_index
_x_tilde(process, ref_flow, kw) ==
    _iterate_a_matrix(Some(af), _unit_column_vector(pdim, fg_index[<<process, ref_flow>>]),
                      kw.thrInv, kw.count, IF kw.quiet = None THEN TRUE ELSE Val(kw.quiet),
                      kw.solver)

\* The results of _compute_bg_lci: bx is the value returned, lu the value of
\* self._lu afterwards, factored the number of calls of factorized().
BgFail(e, ok, lu1, n, r) ==
    [ok |-> ok, err |-> e, bx |-> Zeros(mdim, 1), lu |-> lu1, factored |-> n,
     method |-> r.method, printed |-> r.printed]
\* return self._B.dot(bx), bx from _iterate_a_matrix
BgIter(lu1, n, r) ==
    IF r.err # "" THEN BgFail(r.err, TRUE, lu1, n, r)
    ELSE IF B = None THEN BgFail("AttributeError", r.ok, lu1, n, r)
    ELSE [ok |-> r.ok, err |-> "", bx |-> Dot(Val(B), r.x), lu |-> lu1, factored |-> n,
          method |-> r.method, printed |-> r.printed]
\* return self._B.dot(bx), bx from self._lu; dense tells that ad is the dense
\* matrix sys_lci hands over, which has no toarray()
BgLu(lu1, n, dense, s) ==
    IF s.singular THEN BgFail("", FALSE, lu1, n, [method |-> "lu", printed |-> <<>>])
    ELSE IF dense THEN BgFail("AttributeError", TRUE, lu1, n, [method |-> "lu", printed |-> <<>>])
    ELSE IF B = None
    THEN BgFail("AttributeError", s.integral, lu1, n, [method |-> "lu", printed |-> <<>>])
    ELSE [ok |-> s.integral /\ WithinCap(s.x), err |-> "", bx |-> Dot(Val(B), s.x),
          lu |-> lu1, factored |-> n, method |-> "lu", printed |-> <<>>]

\* The body of _compute_bg_lci; factor tells whether (I - A) is factorized now
BgLci(ad_, kw, quiet, dense, factor) ==
    IF factor /\ A = None
    THEN BgFail("AttributeError", TRUE, lu, 0, [method |-> "", printed |-> <<>>])
    ELSE IF (IF factor THEN Some(EyeMinus(Val(A))) ELSE lu) = None
    THEN BgIter(lu, 0, _iterate_a_matrix(A, ad_, kw.thrInv, kw.count, quiet, kw.solver))
    ELSE BgLu(IF factor THEN Some(EyeMinus(Val(A))) ELSE lu, IF factor THEN 1 ELSE 0, dense,
              DirectSolve(Val(IF factor THEN Some(EyeMinus(Val(A))) ELSE lu), ad_))

\* _compute_bg_lci factorizing on every call made with solver=factorize
ComputeBgLciRefactor(ad_, kw, quiet, dense) ==
    BgLci(ad_, kw, quiet, dense, kw.solver = "factorize")
\* _compute_bg_lci(ad, solver, **kwargs)
_compute_bg_lci(ad_, kw, quiet, dense) ==
    BgLci(ad_, kw, quiet, dense, kw.solver = "factorize" /\ lu = None)

\* the quiet that reaches _iterate_a_matrix from _compute_bg_lci(**kwargs)
QuietOf(kw) == IF kw.quiet = None THEN FALSE ELSE Val(kw.quiet)

\* The results of _compute_lci: v is the vector returned, solved tells whether
\* a background solve was started, direct is Bf.x~.
LciNone(ok, e, v, printed) ==
    [ok |-> ok, err |-> e, v |-> v, lu |-> lu, factored |-> 0, method |-> "",
     printed |-> printed, solved |-> FALSE, direct |-> v]
\* bx, or bx + bf_tilde
LciSum(xt, bf_tilde, r) ==
    [ok |-> r.ok, err |-> r.err,
     v |-> IF r.err = "" /\ r.ok THEN Plus(r.bx, bf_tilde) ELSE bf_tilde,
     lu |-> r.lu, factored |-> r.factored, method |-> r.method,
     printed |-> xt.printed \o r.printed, solved |-> TRUE, direct |-> bf_tilde]
\* the branch of _compute_lci for a foreground target
LciFg(kw, xt) ==
    IF ~xt.ok THEN LciNone(FALSE, "", Zeros(mdim, 1), <<>>)
    ELSE IF ~_complete THEN LciNone(TRUE, "", Dot(bf, xt.x), xt.printed)
    ELSE LciSum(xt, Dot(bf, xt.x), _compute_bg_lci(Dot(ad, xt.x), kw, QuietOf(kw), FALSE))

\* _compute_lci(process, ref_flow, **kwargs)
_compute_lci(process, ref_flow, kw) ==
    IF is_in_background(process, ref_flow)
    THEN IF ~_complete THEN LciNone(TRUE, "NoLciDatabase", Zeros(mdim, 1), <<>>)
         ELSE LciSum([printed |-> <<>>], Zeros(mdim, 1),
                     _compute_bg_lci(_unit_column_vector(ndim, bg_index[<<process, ref_flow>>]),
                                     kw, QuietOf(kw), FALSE))
    ELSE IF <<process, ref_flow>> \notin DOMAIN fg_index
    THEN LciNone(TRUE, "KeyError", Zeros(mdim, 1), <<>>)
    ELSE LciFg(kw, _x_tilde(process, ref_flow, kw))

\* the generator lci runs over the vector c.v
LciYield(c, g) ==
    [out |-> g.out, err |-> g.err, ok |-> c.ok, lu |-> c.lu, factored |-> c.factored,
     method |-> c.method, printed |-> c.printed, solved |-> c.solved, v |-> c.v,
     direct |-> c.direct]
LciGen(process, c) ==
    LciYield(c, IF c.err # "" THEN Raised(<<>>, c.err) ELSE _generate_em_defs(process, c.v, 0))
\* lci(process, ref_flow, **kwargs)
lci(process, ref_flow, kw) == LciGen(process, _compute_lci(process, ref_flow, kw))

AdGen(process, xt) ==
    [ok |-> xt.ok] @@ _generate_exch_defs(process, Dot(ad, xt.x), bg, "ad_tilde", 0)
\* ad(process, ref_flow, **kwargs)
ad_query(process, ref_flow, kw) ==
    IF is_in_background(process, ref_flow)
    THEN [ok |-> TRUE] @@ dependencies(process, ref_flow)
    ELSE IF <<process, ref_flow>> \notin DOMAIN fg_index
    THEN [ok |-> TRUE] @@ Raised(<<>>, "KeyError")
    ELSE AdGen(process, _x_tilde(process, ref_flow, kw))

BfGen(process, xt) == [ok |-> xt.ok] @@ _generate_em_defs(process, Dot(bf, xt.x), 0)
\* bf(process, ref_flow, **kwargs)
bf_query(process, ref_flow, kw) ==
    IF is_in_background(process, ref_flow)
    THEN [ok |-> TRUE] @@ exterior(process, ref_flow)
    ELSE IF <<process, ref_flow>> \notin DOMAIN fg_index
    THEN [ok |-> TRUE] @@ Raised(<<>>, "KeyError")
    ELSE BfGen(process, _x_tilde(process, ref_flow, kw))

\* (xf, x) as column vectors
Levels(xf, r) == [ok |-> r.ok, err |-> r.err, xf |-> xf, x |-> r.x]
\* the branch of activity_levels for a foreground target
LevelsFg(kw, xt) ==
    IF ~xt.ok THEN [ok |-> FALSE, err |-> "", xf |-> xt.x, x |-> Zeros(ndim, 1)]
    ELSE Levels(xt.x, _iterate_a_matrix(A, Dot(ad, xt.x), kw.thrInv, kw.count, QuietOf(kw),
                                        kw.solver))
\* activity_levels(process, ref_flow, **kwargs)
activity_levels(process, ref_flow, kw) ==
    IF is_in_background(process, ref_flow)
    THEN Levels(Zeros(pdim, 1),
                _iterate_a_matrix(A, _unit_column_vector(ndim, bg_index[<<process, ref_flow>>]),
                                  kw.thrInv, kw.count, QuietOf(kw), kw.solver))
    ELSE IF <<process, ref_flow>> \notin DOMAIN fg_index
    THEN [ok |-> TRUE, err |-> "KeyError", xf |-> Zeros(pdim, 1), x |-> Zeros(ndim, 1)]
    ELSE LevelsFg(kw, _x_tilde(process, ref_flow, kw))

\* unit_scores(char_vector): (sf, s), char_vector a column of weights per exterior flow
unit_scores(char_vector) ==
    LET row(m) == [j \in 0 .. NCols(m) - 1 |->
                      SumTo([k \in 0 .. mdim - 1 |-> char_vector[k] * m.d[<<k, j>>]], mdim - 1)]
    IN IF B = None THEN [err |-> "TypeError", sf |-> row(bf), s |-> <<>>]
       ELSE [err |-> "", sf |-> row(bf), s |-> row(Val(B))]

(***************************************************************************)
(* sys_lci(demand, quiet, **kwargs).  A demand exchange has a process, a   *)
(* flow (its external_ref), a direction, a type, a termination (None when  *)
(* unterminated), a context and a value.                                   *)
(***************************************************************************)
Exch(process, flow, direction, type, termination, context, value) ==
    [process |-> process, flow |-> flow, direction |-> direction, type |-> type,
     termination |-> termination, context |-> context, value |-> value]

\* _check_dirn(term_ref, exch)
_check_dirn(term_ref, exch) == IF comp_dir(exch.direction) = term_ref.direction THEN 1 ELSE -1

\* the ExchDef kept for an exchange that is passed through, its direction turned
MissedComp(x, term) ==
    Item(ExchDef(x.process, x.flow, comp_dir(x.direction), term, x.value), "missed", 0, 0, 0)
\* the ExchDef kept for an exchange that is passed through
Missed(x, term) ==
    Item(ExchDef(x.process, x.flow, x.direction, term, x.value), "missed", 0, 0, 0)

\* one pass of the loop over demand
Classify(acc, x) ==
    LET acc1 == [acc EXCEPT !.node_ref = IF @ = "None" THEN x.process ELSE @]
        key == IF x.termination = None THEN <<>> ELSE <<Val(x.termination), x.flow>>
    IN IF x.type = "context"
       THEN [acc1 EXCEPT !.missed = Append(@, Missed(x, TupleTerm(x.context)))]
       ELSE IF x.termination = None
       THEN [acc1 EXCEPT !.missed = Append(@, Missed(x, NoTerm))]
       ELSE IF key \in DOMAIN fg_index
       THEN [acc1 EXCEPT !.fg_ind = Append(@, fg_index[key]),
                         !.fg_val = Append(@, x.value * _check_dirn(fg[fg_index[key]], x))]
       ELSE IF key \in DOMAIN bg_index
       THEN [acc1 EXCEPT !.bg_ind = Append(@, bg_index[key]),
                         !.bg_val = Append(@, x.value * _check_dirn(bg[bg_index[key]], x))]
       ELSE [acc1 EXCEPT !.missed = Append(@, Missed(x, ProcTerm(key[1])))]

RECURSIVE DemandLoop(_, _)
DemandLoop(demand, acc) ==
    IF demand = <<>> THEN acc ELSE DemandLoop(Tail(demand), Classify(acc, Head(demand)))

\* csr_matrix((val, (ind, [0]*len(ind))), shape=(dim, 1)): repeated indices add up
\* a column in which a repeated index keeps its last value
ScatterLast(dim, ind, val) ==
    Mat(dim, 1, [x \in (0 .. dim - 1) \X {0} |->
        LET ks == {k \in 1 .. Len(ind) : ind[k] = x[1]}
        IN IF ks = {} THEN 0 ELSE val[CHOOSE k \in ks : \A j \in ks : j <= k]])

Scatter(dim, ind, val) ==
    Mat(dim, 1, [x \in (0 .. dim - 1) \X {0} |->
        SeqSum([k \in 1 .. Len(ind) |-> IF ind[k] = x[1] THEN val[k] ELSE 0])])

\* the order in which sys_lci yields: the numerical exchanges, then missed
SysLciYieldMissedFirst(ems, missed) == [out |-> missed \o ems.out, err |-> ems.err]
SysLciYield(ems, missed) == Then(ems, Returned(missed))

\* what sys_lci has yielded when it ends
SysLciOut(x_dmd, bg_dmd, r, g) ==
    [ok |-> r.ok, out |-> g.out, err |-> g.err, lu |-> r.lu, factored |-> r.factored,
     x_dmd |-> x_dmd, bg_dmd |-> bg_dmd, printed |-> r.printed, method |-> r.method]
\* for x in self._generate_em_defs(node_ref, csr_matrix(bx)) ... for x in missed
SysLciGen(acc, x_dmd, bg_dmd, bf_tilde, r) ==
    SysLciOut(x_dmd, bg_dmd, r,
              IF r.err # "" THEN Raised(<<>>, r.err)
              ELSE SysLciYield(_generate_em_defs(acc.node_ref, Plus(r.bx, bf_tilde), 0),
                               acc.missed))
\* ad_tilde, bf_tilde and bx from x_tilde
SysLciBg(acc, x_dmd, bg_dmd, quiet, kw, xt) ==
    IF ~xt.ok
    THEN SysLciOut(x_dmd, bg_dmd, [ok |-> FALSE, lu |-> lu, factored |-> 0, printed |-> <<>>,
                                   method |-> ""], Returned(<<>>))
    ELSE SysLciGen(acc, x_dmd, bg_dmd, Dot(bf, xt.x),
                   _compute_bg_lci(Plus(Dot(ad, xt.x), bg_dmd), kw, quiet = Some(TRUE), TRUE))
\* x_tilde from x_dmd
SysLciFg(acc, x_dmd, bg_dmd, quiet, kw) ==
    SysLciBg(acc, x_dmd, bg_dmd, quiet, kw,
             _iterate_a_matrix(Some(af), x_dmd, kw.thrInv, kw.count, TRUE, kw.solver))
\* x_dmd and the background demand from the lists the loop has filled
SysLciDmd(acc, quiet, kw) ==
    SysLciFg(acc, Scatter(pdim, acc.fg_ind, acc.fg_val), Scatter(ndim, acc.bg_ind, acc.bg_val),
             quiet, kw)
\* sys_lci(demand, quiet, **kwargs)
sys_lci(demand, quiet, kw) ==
    SysLciDmd(DemandLoop(demand, [node_ref |-> "None", fg_ind |-> <<>>, fg_val |-> <<>>,
                                  bg_ind |-> <<>>, bg_val |-> <<>>, missed |-> <<>>]),
              quiet, kw)

(***************************************************************************)
(* The calls.  Every call leaves its arguments and its outcome in last.    *)
(***************************************************************************)
\* no call is under way: the result of the one before has been taken
Idle == last = NoCall

Keys ==
    {<<FgFlows[k][3], FgFlows[k][1]>> : k \in 1 .. Len(FgFlows)}
    \cup {<<BgFlows[k][3], BgFlows[k][1]>> : k \in 1 .. Len(BgFlows)}
    \cup {<<"p0", "f1">>}
Kws == {Kw("none", DefaultCount), Kw("none", MaxCount), Kw("spsolve", DefaultCount),
        Kw("factorize", DefaultCount)}

\* a call that assigns no field of the object
Reads == UNCHANGED <<obj, lu, context_map, nfactor, env>>
\* a call that may store a factorization
Solves(r) ==
    /\ r.ok
    /\ lu' = r.lu
    /\ nfactor' = nfactor + r.factored
    /\ UNCHANGED <<obj, context_map, env>>

IsInBackground ==
    /\ Idle
    /\ \E k \in Keys :
        /\ last' = [op |-> "is_in_background", process |-> k[1], ref_flow |-> k[2],
                    ret |-> is_in_background(k[1], k[2])]
        /\ Reads

IsInScc ==
    /\ Idle
    /\ \E k \in Keys :
        /\ last' = [op |-> "is_in_scc", process |-> k[1], ref_flow |-> k[2]]
                   @@ is_in_scc(k[1], k[2])
        /\ Reads

Foreground ==
    /\ Idle
    /\ \E k \in Keys, traverse \in BOOLEAN, exterior_ \in BOOLEAN :
        /\ last' = [op |-> "foreground", process |-> k[1], ref_flow |-> k[2],
                    traverse |-> traverse, exterior |-> exterior_]
                   @@ foreground(k[1], k[2], traverse, exterior_)
        /\ Reads

Dependencies ==
    /\ Idle
    /\ \E k \in Keys :
        /\ last' = [op |-> "dependencies", process |-> k[1], ref_flow |-> k[2]]
                   @@ dependencies(k[1], k[2])
        /\ Reads

Exterior ==
    /\ Idle
    /\ \E k \in Keys :
        /\ last' = [op |-> "exterior", process |-> k[1], ref_flow |-> k[2]]
                   @@ exterior(k[1], k[2])
        /\ Reads

Consumers ==
    /\ Idle
    /\ \E k \in Keys :
        /\ last' = [op |-> "consumers", process |-> k[1], ref_flow |-> k[2]]
                   @@ consumers(k[1], k[2])
        /\ Reads

Emitters ==
    /\ Idle
    /\ \E flow_ref \in {"e0", "e1"}, direction \in {None, Some("Input"), Some("Output")},
       context \in {None, Some("urban air"), Some("water")} :
        /\ last' = [op |-> "emitters", flow_ref |-> flow_ref, direction |-> direction,
                    context |-> context]
                   @@ emitters(flow_ref, direction, context)
        /\ Reads

AdQuery ==
    /\ Idle
    /\ \E k \in Keys, kw \in Kws :
        \E r \in {ad_query(k[1], k[2], kw)} :
           /\ r.ok
           /\ last' = [op |-> "ad", process |-> k[1], ref_flow |-> k[2], kw |-> kw] @@ r
           /\ Reads

BfQuery ==
    /\ Idle
    /\ \E k \in Keys, kw \in Kws :
        \E r \in {bf_query(k[1], k[2], kw)} :
           /\ r.ok
           /\ last' = [op |-> "bf", process |-> k[1], ref_flow |-> k[2], kw |-> kw] @@ r
           /\ Reads

Lci ==
    /\ Idle
    /\ \E k \in Keys, kw \in Kws :
        \E r \in {lci(k[1], k[2], kw)} :
           /\ Solves(r)
           /\ last' = [op |-> "lci", process |-> k[1], ref_flow |-> k[2], kw |-> kw] @@ r

ActivityLevels ==
    /\ Idle
    /\ \E k \in Keys, kw \in Kws :
        \E r \in {activity_levels(k[1], k[2], kw)} :
           /\ r.ok
           /\ last' = [op |-> "activity_levels", process |-> k[1], ref_flow |-> k[2],
                       kw |-> kw] @@ r
           /\ Reads

UnitScores ==
    /\ Idle
    /\ \E char_vector \in {[k \in 0 .. mdim0 - 1 |-> 1], [k \in 0 .. mdim0 - 1 |-> k]} :
        /\ last' = [op |-> "unit_scores", char_vector |-> char_vector]
                   @@ unit_scores(char_vector)
        /\ Reads

(***************************************************************************)
(* The demand exchanges handed to sys_lci.                                 *)
(***************************************************************************)
DemandExchanges ==
    {Exch("pX", "f0", "Input", "node", Some("p0"), <<>>, 1),
     Exch("pX", "f1", "Input", "node", Some("p1"), <<>>, 2),
     Exch("pX", "f0", "Input", "node", Some("q0"), <<>>, 1),
     Exch("pX", "e0", "Output", "context", Some("air"), <<"air", "urban">>, 2),
     Exch("pY", "w", "Output", "cutoff", None, <<>>, 1),
     Exch("pX", "f1", "Input", "node", Some("p0"), <<>>, 1)}

RECURSIVE SeqsUpTo(_, _)
\* the sequences over S of length at most n
SeqsUpTo(S, n) ==
    IF n = 0 THEN {<<>>}
    ELSE LET prev == SeqsUpTo(S, n - 1) IN prev \cup {Append(q, x) : q \in prev, x \in S}

SysLciCall(demands) ==
    /\ Idle
    /\ \E demand \in demands, kw \in Kws, quiet \in {None} :
        \E r \in {sys_lci(demand, quiet, kw)} :
           /\ Solves(r)
           /\ last' = [op |-> "sys_lci", demand |-> demand, quiet |-> quiet, kw |-> kw] @@ r

SysLciShort == SysLciCall(SeqsUpTo(DemandExchanges, 1))
SysLci == SysLciCall(SeqsUpTo(DemandExchanges, MaxDemand))

\* the caller takes the result of the call
Return ==
    /\ last # NoCall
    /\ last' = NoCall
    /\ UNCHANGED <<obj, lu, context_map, nfactor, env>>

Next ==
    \/ Return
    \/ MapContexts
    \/ IsInBackground
    \/ IsInScc
    \/ Foreground
    \/ Dependencies
    \/ Exterior
    \/ Consumers
    \/ Emitters
    \/ AdQuery
    \/ BfQuery
    \/ Lci
    \/ ActivityLevels
    \/ UnitScores
    \/ SysLciShort

Spec == Init /\ [][Next]_vars

\* sys_lci alone, on the two systems as built, with demand lists of up to
\* MaxDemand exchanges
InitSys == \E base \in Bases, complete \in BOOLEAN : Fresh(Built(base, complete))

NextSys ==
    \/ Return
    \/ MapContexts
    \/ SysLci

SpecSys == InitSys /\ [][NextSys]_vars

(***************************************************************************)
(* Properties.                                                             *)
(***************************************************************************)
EmsOf(out) == SelectSeq(out, LAMBDA it : it.kind = "em")
MissedOf(out) == SelectSeq(out, LAMBDA it : it.kind = "missed")
\* a demand exchange that sys_lci cannot resolve to a product flow
Unresolved(x) ==
    \/ x.type = "context"
    \/ x.termination = None
    \/ <<Val(x.termination), x.flow>> \notin (DOMAIN fg_index \cup DOMAIN bg_index)
Resolved(x) == ~Unresolved(x)
FieldsOf(items) ==
    [k \in 1 .. Len(items) |->
        <<items[k].x.process, items[k].x.flow, items[k].x.direction, items[k].x.value>>]
PassedThrough(demand) ==
    [k \in 1 .. Len(SelectSeq(demand, Unresolved)) |->
        <<SelectSeq(demand, Unresolved)[k].process, SelectSeq(demand, Unresolved)[k].flow,
          SelectSeq(demand, Unresolved)[k].direction, SelectSeq(demand, Unresolved)[k].value>>]

\* C1: whatever sys_lci yields is the numerical exchanges, in strictly
\* increasing exterior index, followed by the missed entries; when the call
\* runs to its end the missed entries are the unresolved entries of the demand
\* in the caller's order.
C1_Order ==
    last.op = "sys_lci" =>
        /\ last.out = EmsOf(last.out) \o MissedOf(last.out)
        /\ \A i, j \in 1 .. Len(EmsOf(last.out)) :
              i < j => EmsOf(last.out)[i].row < EmsOf(last.out)[j].row
        /\ FieldsOf(MissedOf(last.out)) =
              IF last.err = "" THEN PassedThrough(last.demand) ELSE <<>>

C1_Witness ==
    /\ last.op = "sys_lci"
    /\ last.err = ""
    /\ Len(last.demand) = 3
    /\ Unresolved(last.demand[1]) /\ Resolved(last.demand[2]) /\ Unresolved(last.demand[3])
    /\ Len(EmsOf(last.out)) >= 2
    /\ Len(MissedOf(last.out)) = 2

\* C2: a call of sys_lci ends as the call on the demand without its
\* unresolved entries ends (the same exception or none, the same foreground and
\* background demand vectors, the same numerical values), and when it runs to
\* its end every unresolved entry is in the missed tail once, with its process,
\* flow, direction and value.
C2_PassThrough ==
    [][last'.op = "sys_lci" =>
          /\ sys_lci(SelectSeq(last'.demand, Resolved), last'.quiet, last'.kw).ok
          /\ last'.err = sys_lci(SelectSeq(last'.demand, Resolved), last'.quiet, last'.kw).err
          /\ last'.x_dmd =
                sys_lci(SelectSeq(last'.demand, Resolved), last'.quiet, last'.kw).x_dmd
          /\ last'.bg_dmd =
                sys_lci(SelectSeq(last'.demand, Resolved), last'.quiet, last'.kw).bg_dmd
          /\ [k \in 1 .. Len(EmsOf(last'.out)) |->
                 <<EmsOf(last'.out)[k].row, EmsOf(last'.out)[k].x.value>>]
             = [k \in 1 .. Len(sys_lci(SelectSeq(last'.demand, Resolved), last'.quiet,
                                       last'.kw).out) |->
                 <<sys_lci(SelectSeq(last'.demand, Resolved), last'.quiet, last'.kw).out[k].row,
                   sys_lci(SelectSeq(last'.demand, Resolved), last'.quiet,
                           last'.kw).out[k].x.value>>]
          /\ last'.err = "" => FieldsOf(MissedOf(last'.out)) = PassedThrough(last'.demand)]_vars

C2_Witness ==
    /\ last.op = "sys_lci"
    /\ last.err = ""
    /\ \E i, j, k \in 1 .. Len(last.demand) :
          /\ last.demand[i].type = "context"
          /\ last.demand[j].type # "context" /\ last.demand[j].termination # None
          /\ Unresolved(last.demand[j])
          /\ Resolved(last.demand[k])
    /\ \E x \in DOMAIN last.x_dmd.d : last.x_dmd.d[x] # 0
    /\ Len(MissedOf(last.out)) = 2

\* C3, as stated: on a FlatBackground without A and B, lci for a background
\* target raises NoLciDatabase and starts no solve, and lci for a foreground
\* target raises nothing and returns Bf.x~.
C3_AsStated ==
    (last.op = "lci" /\ ~_complete
        /\ <<last.process, last.ref_flow>> \in DOMAIN fg_index \cup DOMAIN bg_index) =>
        IF <<last.process, last.ref_flow>> \in DOMAIN bg_index
        THEN last.err = "NoLciDatabase" /\ ~last.solved
        ELSE /\ last.err = ""
             /\ last.v = Dot(bf, _x_tilde(last.process, last.ref_flow, last.kw).x)
             /\ ~last.solved

\* C4, as stated: on a FlatBackground without A and B, sys_lci raises
\* NoLciDatabase.
C4_AsStated == (last.op = "sys_lci" /\ ~_complete) => last.err = "NoLciDatabase"

\* C5: no call changes an ordering, an index map or a matrix; the stored
\* factorization changes only from unset to set, in a call of lci or sys_lci
\* made with solver=factorize, and factorized() runs at most once.
C5_Frame ==
    [][/\ obj' = obj
       /\ lu' # lu =>
             /\ lu = None /\ lu' # None
             /\ last'.op \in {"lci", "sys_lci"}
             /\ last'.kw.solver = "factorize"
       /\ nfactor' # nfactor => lu = None /\ lu' # None /\ nfactor' = 1]_vars

C5_Witness == lu # None /\ last.op = "lci" /\ last.method = "lu" /\ last.factored = 0

\* the foreground indices reachable from index i over non-zero entries of Af
AfReach(i) == ReachFrom(af, {i}, pdim)
NoDuplicates(q) == \A i, j \in 1 .. Len(q) : i # j => q[i] # q[j]

\* C6: foreground with traverse=False ends by itself, having put each index
\* on the work list and expanded it at most once; the first item yielded is
\* the root entry; a call that yields no exterior exchanges raises nothing,
\* and a call that raises nothing has yielded one ExchDef for each non-zero
\* entry of Af in a column reachable from the root, and no other.
C6_Terminates ==
    (last.op = "foreground" /\ ~last.traverse
        /\ <<last.process, last.ref_flow>> \in DOMAIN fg_index) =>
        LET root == fg_index[<<last.process, last.ref_flow>>]
            links == SelectSeq(last.out, LAMBDA it : it.kind = "af")
        IN /\ last.done
           /\ NoDuplicates(last.enq) /\ NoDuplicates(last.expanded)
           /\ last.out[1].x = ExchDef(last.process, last.ref_flow, fg[root].direction, NoTerm, 1)
           /\ ~last.exterior => last.err = ""
           /\ last.err = "" =>
                 /\ {<<links[k].row, links[k].col>> : k \in 1 .. Len(links)}
                    = {x \in DOMAIN af.d : x[2] \in AfReach(root) /\ af.d[x] # 0}
                 /\ NoDuplicates([k \in 1 .. Len(links) |-> <<links[k].row, links[k].col>>])
                 /\ \A k \in 1 .. Len(links) :
                       /\ links[k].x.process = fg[links[k].col].term_ref
                       /\ links[k].x.flow = fg[links[k].row].flow_ref
                       /\ links[k].x.term = ProcTerm(fg[links[k].row].term_ref)

C6_Witness ==
    /\ last.op = "foreground" /\ ~last.traverse /\ last.err = ""
    /\ af.d[<<0, 1>>] # 0 /\ af.d[<<1, 0>>] # 0
    /\ Len(last.expanded) = 3

ProductFlows == {fg[i] : i \in DOMAIN fg} \cup {bg[i] : i \in DOMAIN bg}
InDependencies(i, j) ==
    \E k \in 1 .. Len(dependencies(i.term_ref, i.flow_ref).out) :
        /\ dependencies(i.term_ref, i.flow_ref).out[k].x.term = ProcTerm(j.term_ref)
        /\ dependencies(i.term_ref, i.flow_ref).out[k].x.flow = j.flow_ref
InConsumers(i, j) ==
    \E k \in 1 .. Len(consumers(j.term_ref, j.flow_ref).out) :
        consumers(j.term_ref, j.flow_ref).out[k] = i

\* C7: on a FlatBackground with A and B where consumers or dependencies has
\* been called, product flow j is a termination yielded by dependencies(i)
\* exactly when product flow i is yielded by consumers(j), for all product
\* flows i and j, and neither call raises.
C7_Symmetry ==
    (_complete /\ last.op \in {"consumers", "dependencies"}) =>
        \A i, j \in ProductFlows :
            /\ dependencies(i.term_ref, i.flow_ref).err = ""
            /\ consumers(j.term_ref, j.flow_ref).err = ""
            /\ InDependencies(i, j) <=> InConsumers(i, j)

C7_Witness ==
    /\ _complete
    /\ last.op = "consumers" /\ last.err = ""
    /\ \E i \in DOMAIN fg, j \in DOMAIN bg : fg[i] \in {last.out[k] : k \in 1 .. Len(last.out)}
                                             /\ bg[j] \in {last.out[k] : k \in 1 .. Len(last.out)}

\* the product flow an item of an interior dependency refers to, and the
\* coefficient it was made from
Interior(it) == it.kind \in {"af", "ad", "A", "ad_tilde"}
TermOf(it) == IF it.kind = "af" THEN fg[it.row] ELSE bg[it.row]
SignCalls == {"foreground", "dependencies", "ad"}

\* C8: every ExchDef of an interior dependency yielded by foreground,
\* dependencies and ad has a positive value, the magnitude of the
\* coefficient; a negative coefficient gives it the stored direction of the
\* product flow referred to, a positive one the complement of that direction.
C8_Sign ==
    last.op \in SignCalls =>
        \A k \in 1 .. Len(last.out) :
            Interior(last.out[k]) =>
                /\ last.out[k].coef # 0
                /\ last.out[k].x.value = Abs(last.out[k].coef)
                /\ last.out[k].x.flow = TermOf(last.out[k]).flow_ref
                /\ last.out[k].x.direction =
                      IF last.out[k].coef < 0 THEN TermOf(last.out[k]).direction
                      ELSE comp_dir(TermOf(last.out[k]).direction)

\* C8, as stated: a negative coefficient inverts the stored direction, a
\* positive one emits its complement.
C8_AsStated ==
    last.op \in SignCalls =>
        \A k \in 1 .. Len(last.out) :
            Interior(last.out[k]) =>
                /\ last.out[k].x.value >= 0
                /\ last.out[k].x.value = Abs(last.out[k].coef)
                /\ last.out[k].x.direction = comp_dir(TermOf(last.out[k]).direction)

C8_Witness ==
    /\ last.op = "dependencies"
    /\ \E k \in 1 .. Len(last.out) : last.out[k].kind = "ad" /\ last.out[k].coef < 0
    /\ \E k \in 1 .. Len(last.out) : last.out[k].kind = "af" /\ last.out[k].coef > 0

(***************************************************************************)
(* Serialization.  A path is the sequence of its stem and its dotted       *)
(* parts: "a.mat.ordering.json.gz" is <<"a", ".mat", ".ordering.json.gz">>.*)
(* A file holds what the library call that wrote it stored: savemat the    *)
(* compressed-column form of each named matrix, to_json the lists.         *)
(***************************************************************************)
SUPPORTED_FILETYPES == {".mat"}
\* the suffix from_matfile falls back to
LegacySuffix == ".index.json.gz"
MatPath(stem) == <<stem, ".mat">>
Paths ==
    {MatPath("a"), MatPath("b"), Append(MatPath("a"), ORDERING_SUFFIX), <<"a", ".hdf">>,
     <<"a", ".json">>, <<"a">>}

\* filename.endswith(ORDERING_SUFFIX)
EndsWithOrdering(filename) == Len(filename) > 1 /\ filename[Len(filename)] = ORDERING_SUFFIX
\* filename[:-len(ORDERING_SUFFIX)] when the name ends with the suffix
StripOrdering(filename) ==
    IF EndsWithOrdering(filename) THEN SubSeq(filename, 1, Len(filename) - 1) ELSE filename
\* os.path.splitext(filename)[1]
SplitExt(filename) ==
    IF Len(filename) < 2 THEN ""
    ELSE IF filename[Len(filename)] \in {ORDERING_SUFFIX, LegacySuffix} THEN ".gz"
    ELSE filename[Len(filename)]

\* what savemat stores of a sparse matrix: its shape and its non-zero entries
Csc(m) == [shape |-> m.shape, nz |-> [x \in {y \in DOMAIN m.d : m.d[y] # 0} |-> m.d[x]]]
\* d[name].tocsr() of a stored matrix
ToCsr(c) == MatOf(c.shape[1], c.shape[2], c.nz)
SaveMat(d) == [mat |-> [name \in DOMAIN d |-> Csc(d[name])]]
\* the lists of tuple(f)
TupleList(refs) == [k \in 1 .. Cardinality(DOMAIN refs) |-> TermTuple(refs[k - 1])]

\* the fields of self that are written
Self == [fg |-> fg, bg |-> bg, ex |-> ex, af |-> af, ad |-> ad, bf |-> bf, A |-> A, B |-> B]

\* _write_mat without the lci_db
WriteMatNoLci(self, dsk, filename, complete) ==
    (filename :> SaveMat([Af |-> self.af, Ad |-> self.ad, Bf |-> self.bf])) @@ dsk

\* _write_mat(filename, complete): the files after it
_write_mat(self, dsk, filename, complete) ==
    LET d == [Af |-> self.af, Ad |-> self.ad, Bf |-> self.bf]
        all == IF complete /\ self.A # None /\ self.B # None
               THEN d @@ [A |-> Val(self.A), B |-> Val(self.B)]
               ELSE d
    IN (filename :> SaveMat(all)) @@ dsk

\* the ordering object that is written
Ordering(self) ==
    [foreground |-> TupleList(self.fg), background |-> TupleList(self.bg),
     exterior |-> TupleList(self.ex)]

\* _write_ordering(filename): the files after it
_write_ordering(self, dsk, filename) ==
    LET name == IF EndsWithOrdering(filename) THEN filename ELSE Append(filename, ORDERING_SUFFIX)
    IN (name :> Ordering(self)) @@ dsk

\* write_to_file writing the matrix file before it looks at the file type
WriteToFileUnchecked(self, filename, complete) ==
    LET name == StripOrdering(filename)
        filetype == SplitExt(name)
        written == _write_mat(self, disk, name, complete)
    IN IF filetype \notin SUPPORTED_FILETYPES THEN [err |-> "ValueError", disk |-> written]
       ELSE [err |-> "", disk |-> _write_ordering(self, written, name)]

\* write_to_file(filename, complete): [err, disk]
write_to_file(self, filename, complete) ==
    LET name == StripOrdering(filename)
        filetype == SplitExt(name)
    IN IF filetype \notin SUPPORTED_FILETYPES THEN [err |-> "ValueError", disk |-> disk]
       ELSE IF filetype = ".mat"
       THEN [err |-> "", disk |-> _write_ordering(self, _write_mat(self, disk, name, complete), name)]
       ELSE [err |-> "ValueError", disk |-> disk]

from_hdf5 == [err |-> "NotImplementedError"]

\* from_matfile(file): [err, loaded]
from_matfile(file) ==
    IF file \notin DOMAIN disk THEN [err |-> "FileNotFoundError"]
    ELSE LET d == disk[file].mat
             lci_db == IF "A" \in DOMAIN d THEN Some(<<ToCsr(d.A), ToCsr(d.B)>>) ELSE None
             current == Append(file, ORDERING_SUFFIX)
             legacy == Append(file, LegacySuffix)
         IN IF current \notin DOMAIN disk /\ legacy \notin DOMAIN disk
            THEN [err |-> "FileNotFoundError"]
            ELSE LET ordr == IF current \in DOMAIN disk THEN disk[current] ELSE disk[legacy]
                 IN [err |-> "",
                     loaded |-> Construct(ordr.foreground, ordr.background, ordr.exterior,
                                          ToCsr(d.Af), ToCsr(d.Ad), ToCsr(d.Bf), lci_db)]

\* from_file(file): [err, loaded]
from_file(file) ==
    LET ext == SplitExt(file)
    IN IF ext = ".mat" THEN from_matfile(file)
       ELSE IF ext = ".hdf" THEN from_hdf5
       ELSE [err |-> "ValueError"]

WriteToFile ==
    \E filename \in Paths, complete \in BOOLEAN :
        \E r \in {write_to_file(Self, filename, complete)} :
           /\ disk' = r.disk
           /\ last' = [op |-> "write_to_file", filename |-> filename, complete |-> complete,
                       err |-> r.err]
           /\ UNCHANGED <<obj, lu, context_map, nfactor, _flat, _archive>>

FromFile ==
    \E file \in Paths :
        /\ last' = [op |-> "from_file", file |-> file] @@ from_file(file)
        /\ Reads

\* a database written by an earlier version: its ordering is under the legacy suffix
LegacyFiles(c) ==
    (Append(MatPath("b"), LegacySuffix) :> Ordering(c)) @@ _write_mat(c, <<>>, MatPath("b"), TRUE)

InitFile ==
    \E base \in Bases, E \in EditSets(MaxEdit), complete \in BOOLEAN :
        \E c \in {Built(Edited(base, E), complete)} :
           /\ FreshObject(c)
           /\ disk \in {<<>>, LegacyFiles(c)}
           /\ _flat = TRUE
           /\ _archive = "TarjanBackground"
NextFile == WriteToFile \/ FromFile
SpecFile == InitFile /\ [][NextFile]_vars

\* C11: write_to_file on a path whose extension, once a trailing
\* '.ordering.json.gz' is removed, is not a supported file type raises
\* ValueError and leaves every file as it was; from_file on a path whose
\* extension is neither '.mat' nor '.hdf' raises ValueError, on '.hdf' it
\* raises NotImplementedError, and in both cases nothing is loaded.
C11_FileType ==
    [][/\ (last'.op = "write_to_file"
             /\ SplitExt(StripOrdering(last'.filename)) \notin SUPPORTED_FILETYPES)
          => last'.err = "ValueError" /\ disk' = disk
       /\ (last'.op = "from_file" /\ SplitExt(last'.file) \notin SUPPORTED_FILETYPES)
          => /\ last'.err = IF SplitExt(last'.file) = ".hdf" THEN "NotImplementedError"
                            ELSE "ValueError"
             /\ "loaded" \notin DOMAIN last'
             /\ disk' = disk]_vars
C11_Witness ==
    /\ last.op = "write_to_file" /\ last.err = "ValueError" /\ last.filename = <<"a", ".json">>
    /\ MatPath("a") \in DOMAIN disk
    /\ <<"a", ".json">> \notin DOMAIN disk
    /\ Append(<<"a", ".json">>, ORDERING_SUFFIX) \notin DOMAIN disk

\* the loaded object has the orderings and the matrices of this one
SameAsSelf(loaded) ==
    /\ loaded.fg = fg /\ loaded.bg = bg /\ loaded.ex = ex
    /\ loaded.af = af /\ loaded.ad = ad /\ loaded.bf = bf
    /\ loaded.A = A /\ loaded.B = B

Processes == {FgFlows[k][3] : k \in 1 .. Len(FgFlows)} \cup {BgFlows[k][3] : k \in 1 .. Len(BgFlows)}
Flows == {FgFlows[k][1] : k \in 1 .. Len(FgFlows)} \cup {BgFlows[k][1] : k \in 1 .. Len(BgFlows)}
\* the flows of the reference exchanges of a process
ReferenceFlows(process) ==
    {FgFlows[k][1] : k \in {j \in 1 .. Len(FgFlows) : FgFlows[j][3] = process}}
    \cup {BgFlows[k][1] : k \in {j \in 1 .. Len(BgFlows) : BgFlows[j][3] = process}}

StrArg(process) == [shape |-> "str", process |-> process]
ProcessArg(process) == [shape |-> "entity", entity_type |-> "process", process |-> process]
ExchangeArg(process, flow) ==
    [shape |-> "entity", entity_type |-> "exchange", process |-> process, flow |-> flow,
     is_reference |-> flow \in ReferenceFlows(process)]
FlowArg(flow) == [shape |-> "entity", entity_type |-> "flow", flow |-> flow]
OtherArg == [shape |-> "other"]

\* the calls made: reference(None) is asked only of a process with one reference exchange
Requests ==
    {<<a, o>> \in ({StrArg(q) : q \in Processes} \cup {ProcessArg(q) : q \in Processes})
                   \X ({None} \cup {Some(f) : f \in Flows}) :
        o = None => Cardinality(ReferenceFlows(a.process)) = 1}
    \cup {<<ExchangeArg(q, f), None>> : q \in Processes, f \in Flows}
    \cup {<<FlowArg("f0"), None>>, <<OtherArg, None>>, <<OtherArg, Some("f0")>>}

\* process.reference(opt_arg).flow.external_ref: [err, flow]
reference(process, opt_arg) ==
    IF opt_arg = None THEN [err |-> "", flow |-> CHOOSE f \in ReferenceFlows(process) : TRUE]
    ELSE IF Val(opt_arg) \in ReferenceFlows(process) THEN [err |-> "", flow |-> Val(opt_arg)]
    ELSE [err |-> "StopIteration", flow |-> ""]

\* check_bg(reset): [err, flat, lu, context_map]
check_bg(reset) ==
    IF ~_flat \/ reset
    THEN IF _archive = "TarjanBackground"
         THEN [err |-> "", flat |-> TRUE, lu |-> IF reset THEN None ELSE lu,
               context_map |-> MappedContexts]
         ELSE [err |-> "AssertionError", flat |-> _flat, lu |-> lu, context_map |-> context_map]
    ELSE [err |-> "", flat |-> _flat, lu |-> lu, context_map |-> context_map]

Normalized(process_ref, flow_ref) == [err |-> "", process_ref |-> process_ref, flow_ref |-> flow_ref]
Refused(e) == [err |-> e, process_ref |-> "", flow_ref |-> ""]
\* the try block of _check_ref
Interpret(arg, opt_arg) ==
    IF arg.shape = "str" \/ (arg.shape = "entity" /\ arg.entity_type = "process")
    THEN LET r == reference(arg.process, opt_arg)
         IN IF r.err # "" THEN Refused(r.err) ELSE Normalized(arg.process, r.flow)
    ELSE IF arg.shape = "entity"
    THEN IF arg.entity_type = "exchange"
         THEN IF ~arg.is_reference THEN Refused("ValueError")
              ELSE Normalized(arg.process, arg.flow)
         ELSE Refused("TypeError")
    ELSE Refused("TypeError")

\* _check_ref(arg, opt_arg): [err, process_ref, flow_ref] and the state check_bg leaves
_check_ref(arg, opt_arg) ==
    LET c == check_bg(FALSE)
        r == Interpret(arg, opt_arg)
    IN IF c.err # "" THEN Refused(c.err) @@ [bg |-> c]
       ELSE IF r.err = "StopIteration" THEN Refused("InvalidRefFlow") @@ [bg |-> c]
       ELSE r @@ [bg |-> c]

\* a surface call: what _check_ref did, and whether the flat background was asked
SurfaceCall(op, q, c, r) ==
    /\ _flat' = c.bg.flat
    /\ lu' = c.bg.lu
    /\ context_map' = c.bg.context_map
    /\ last' = [op |-> op, arg |-> q[1], opt_arg |-> q[2], check |-> c.err,
                process_ref |-> c.process_ref, flow_ref |-> c.flow_ref, ran |-> c.err = "",
                ret |-> r.ret, err |-> r.err]
    /\ UNCHANGED <<obj, nfactor, disk, _archive>>

SurfaceIsInScc ==
    /\ Idle
    /\ \E q \in Requests :
        \E c \in {_check_ref(q[1], q[2])} :
           SurfaceCall("surface.is_in_scc", q, c,
                       IF c.err = "" THEN is_in_scc(c.process_ref, c.flow_ref)
                       ELSE [ret |-> FALSE, err |-> c.err])

SurfaceIsInBackground ==
    /\ Idle
    /\ \E q \in Requests :
        \E c \in {_check_ref(q[1], q[2])} :
           SurfaceCall("surface.is_in_background", q, c,
                       IF c.err = "" THEN [ret |-> is_in_background(c.process_ref, c.flow_ref), err |-> ""]
                       ELSE [ret |-> FALSE, err |-> c.err])

\* emissions and cutoffs: _exterior(process, ref_flow), which runs the
\* exterior query of the flat background on the object check_bg has left
SurfaceExterior ==
    /\ Idle
    /\ \E q \in Requests :
        \E c \in {_check_ref(q[1], q[2])} :
           /\ _flat' = c.bg.flat
           /\ lu' = c.bg.lu
           /\ context_map' = c.bg.context_map
           /\ UNCHANGED <<obj, nfactor, disk, _archive>>
           /\ last' = [op |-> "surface.exterior", arg |-> q[1], opt_arg |-> q[2],
                       check |-> c.err, process_ref |-> c.process_ref,
                       flow_ref |-> c.flow_ref, ran |-> c.err = "", restored |-> _flat]
                      @@ (IF c.err = "" THEN exterior(c.process_ref, c.flow_ref)'
                          ELSE Raised(<<>>, c.err))

\* the contexts the index holds as elementary (Context.elementary)
ElementaryContexts == {"urban air"}
\* isinstance(x.termination, Context) and x.termination.elementary
IsElementary(x) == x.term.kind = "context" /\ x.term.ref \in ElementaryContexts
\* cutoffs when the elementary exchanges are not skipped
CutoffsAll(g) == g
\* emissions(process, ref_flow), g what _exterior yields
emissions(g) == [out |-> SelectSeq(g.out, LAMBDA it : IsElementary(it.x)), err |-> g.err]
\* cutoffs(process, ref_flow), g what _exterior yields
cutoffs(g) == [out |-> SelectSeq(g.out, LAMBDA it : ~IsElementary(it.x)), err |-> g.err]

\* a query over _exterior: what _check_ref did and what the query yielded
ExteriorCall(op, q, c, r) ==
    /\ _flat' = c.bg.flat
    /\ lu' = c.bg.lu
    /\ context_map' = c.bg.context_map
    /\ UNCHANGED <<obj, nfactor, disk, _archive>>
    /\ last' = [op |-> op, arg |-> q[1], opt_arg |-> q[2], check |-> c.err,
                process_ref |-> c.process_ref, flow_ref |-> c.flow_ref, ran |-> c.err = "",
                restored |-> _flat] @@ r

SurfaceEmissions ==
    /\ Idle
    /\ \E q \in Requests :
        \E c \in {_check_ref(q[1], q[2])} :
           ExteriorCall("surface.emissions", q, c,
                        IF c.err = "" THEN emissions(exterior(c.process_ref, c.flow_ref))'
                        ELSE Raised(<<>>, c.err))

SurfaceCutoffs ==
    /\ Idle
    /\ \E q \in Requests :
        \E c \in {_check_ref(q[1], q[2])} :
           ExteriorCall("surface.cutoffs", q, c,
                        IF c.err = "" THEN cutoffs(exterior(c.process_ref, c.flow_ref))'
                        ELSE Raised(<<>>, c.err))

\* check_bg(reset=True) on an archive that can be reset
CheckBgReset ==
    /\ Idle
    /\ _archive = "TarjanBackground"
    /\ \E c \in {check_bg(TRUE)} :
        /\ _flat' = c.flat /\ lu' = c.lu /\ context_map' = c.context_map
        /\ last' = [op |-> "check_bg", reset |-> TRUE, err |-> c.err]
    /\ UNCHANGED <<obj, nfactor, disk, _archive>>

\* the surface is made over an archive (no flat background yet) or by from_file
InitSurface ==
    \E base \in Bases, complete \in BOOLEAN :
        /\ FreshObject(Built(base, complete))
        /\ disk = <<>>
        /\ _flat \in BOOLEAN
        /\ _archive \in {"TarjanBackground", "LcArchive"}
NextSurface ==
    \/ Return
    \/ CheckBgReset
    \/ SurfaceIsInScc
    \/ SurfaceIsInBackground
    \/ SurfaceExterior
SpecSurface == InitSurface /\ [][NextSurface]_vars

SurfaceOps == {"surface.is_in_scc", "surface.is_in_background"}
\* the process and the flow a request names
NamedProcess(arg) == arg.process
NamedFlow(arg, opt_arg) ==
    IF arg.shape = "entity" /\ arg.entity_type = "exchange" THEN arg.flow
    ELSE IF opt_arg = None THEN CHOOSE f \in ReferenceFlows(arg.process) : TRUE
    ELSE Val(opt_arg)
AcceptedShape(arg) ==
    arg.shape = "str" \/ (arg.shape = "entity" /\ arg.entity_type \in {"process", "exchange"})

\* C9: for every accepted argument shape, a request whose flow is not a
\* reference exchange of the named process fails with InvalidRefFlow and no
\* query is run on the flat background; otherwise the argument is normalized
\* to the pair (process_ref, flow_ref) of that reference exchange.
C9_AsStated ==
    (last.op \in SurfaceOps /\ last.check # "AssertionError" /\ AcceptedShape(last.arg)) =>
        IF NamedFlow(last.arg, last.opt_arg) \notin ReferenceFlows(NamedProcess(last.arg))
        THEN last.check = "InvalidRefFlow" /\ ~last.ran
        ELSE /\ last.check = "" /\ last.ran
             /\ last.process_ref = NamedProcess(last.arg)
             /\ last.flow_ref = NamedFlow(last.arg, last.opt_arg)

(***************************************************************************)
(* The foreground solve on its own: objects whose Af is any matrix of 0/1  *)
(* coefficients, or any matrix of signed coefficients among the first two  *)
(* product flows, so that cyclic and divergent series are among the cases. *)
(***************************************************************************)
CoarseThresholdInv == 2
IterSystems ==
    {[EmptySystem EXCEPT !.af = MatOf(pdim0, pdim0, nz)] :
        nz \in [(0 .. pdim0 - 1) \X (0 .. pdim0 - 1) -> {0, 1}]}
    \cup {[LinkedSystem EXCEPT !.af = MatOf(pdim0, pdim0, nz)] :
            nz \in [(0 .. 1) \X (0 .. 1) -> {-1, 0, 1}]}
\* the keyword arguments of a solve: the defaults, a short count, a coarse
\* threshold, and quiet given by the caller
IterKws ==
    Kws \cup {[Kw("none", MaxCount) EXCEPT !.quiet = Some(FALSE)],
              [Kw("none", DefaultCount) EXCEPT !.quiet = Some(FALSE)],
              [Kw("none", DefaultCount) EXCEPT !.thrInv = CoarseThresholdInv],
              [Kw("none", MaxCount) EXCEPT !.thrInv = CoarseThresholdInv]}

InitIter == \E sys \in IterSystems : Fresh(Built(sys, TRUE))

XTilde ==
    /\ Idle
    /\ \E k \in DOMAIN fg_index, kw \in IterKws :
        \E r \in {_x_tilde(k[1], k[2], kw)} :
           /\ r.ok
           /\ last' = [op |-> "_x_tilde", process |-> k[1], ref_flow |-> k[2], kw |-> kw] @@ r
           /\ Reads

NextIter ==
    \/ Return
    \/ XTilde
    \/ ActivityLevels

SpecIter == InitIter /\ [][NextIter]_vars

\* the product after st.y, its L1 norm added to the increments so far
IncStep(a, st) ==
    LET y1 == Dot(a, st.y)
        inc == L1(y1)
    IN CASE inc >= 0 -> [y |-> y1, incs |-> Append(st.incs, inc)]
RECURSIVE IncLoop(_, _, _)
IncLoop(a, st, n) == IF Len(st.incs) >= n THEN st.incs ELSE IncLoop(a, IncStep(a, st), n)
\* the L1 norms of a.y, a.a.y, ... : the increments of the first n products
Incs(a, y, n) == IncLoop(a, [y |-> y, incs |-> <<>>], n)
\* the increment of pass k is zero or below the threshold times the running total
Met(inc, k, thrInv) == inc[k] = 0 \/ inc[k] * thrInv < SeqSum(SubSeq(inc, 1, k))
IterativeCall == last.op = "_x_tilde" /\ last.method = "iterative"
UnitOfLast == _unit_column_vector(pdim, fg_index[<<last.process, last.ref_flow>>])

\* C12: an iterative solve makes at most max_iter matrix-vector products, and
\* it stops at the first product whose increment has an L1 norm of zero or
\* below threshold times the running total: no earlier product met the test,
\* and a run that made fewer than max_iter products ended on one that did.
C12_Bounded ==
    IterativeCall =>
        LET n == last.products
            inc == Incs(af, UnitOfLast, n)
        IN /\ 1 <= n /\ n <= last.kw.count
           /\ \A k \in 1 .. n - 1 : ~Met(inc, k, last.kw.thrInv)
           /\ n < last.kw.count => Met(inc, n, last.kw.thrInv)
           /\ last.stop = "count" <=> ~Met(inc, n, last.kw.thrInv)
           /\ last.err = ""
\* a divergent series (the increments double) is cut after max_iter products
C12_Witness ==
    /\ IterativeCall
    /\ last.stop = "count" /\ last.products = last.kw.count
    /\ LET inc == Incs(af, UnitOfLast, last.products)
       IN \A k \in 1 .. Len(inc) - 1 : inc[k + 1] = 2 * inc[k]

\* C13: an iterative solve that makes max_iter products without meeting the
\* threshold tells its caller so (it prints a line that a converged run does
\* not print) and returns the partial sum without raising.
C13_AsStated ==
    (IterativeCall /\ last.stop = "count") =>
        /\ last.err = ""
        /\ last.printed # <<>>
        /\ \A kw \in IterKws :
              LET r == _x_tilde(last.process, last.ref_flow, kw)
              IN (kw.count = last.kw.count /\ kw.quiet = last.kw.quiet
                  /\ r.ok /\ r.stop # "count") => r.printed # last.printed

\* no product flow of m depends on itself, directly or through others
Acyclic(m) == \A i \in 0 .. NRows(m) - 1 : i \notin Descendants(m, i)
RECURSIVE PowSum(_, _, _)
\* y + a.y + ... + a^k.y
PowSum(a, y, k) == IF k = 0 THEN y ELSE Plus(y, Dot(a, PowSum(a, y, k - 1)))
FgLevelsCall ==
    last.op = "activity_levels" /\ <<last.process, last.ref_flow>> \in DOMAIN fg_index

RowsAsked(flow_ref, direction, context) ==
    {idx \in DOMAIN ex :
        /\ ex[idx].flow_ref = flow_ref
        /\ direction # None => ex[idx].direction = Val(direction)
        /\ context # None => CanonicalContext(SplitContext(ex[idx].term_ref)) = Val(context)}
\* the product flows with a non-zero entry in one of the rows
EmittersOf(rows) ==
    {fg[j] : j \in {i \in DOMAIN fg : \E idx \in rows : bf.d[<<idx, i>>] # 0}}
    \cup (IF B = None THEN {}
          ELSE {bg[j] : j \in {i \in DOMAIN bg : \E idx \in rows : Val(B).d[<<idx, i>>] # 0}})

\* C15: emitters(flow, direction, context) yields the product flows with a
\* non-zero entry of Bf or B in an exterior row with that flow, that
\* direction when one is given and that canonical context when one is given,
\* each of them once, and no other product flow.
C15_AsStated ==
    last.op = "emitters" =>
        /\ last.err = ""
        /\ last.yielded = EmittersOf(RowsAsked(last.flow_ref, last.direction, last.context))

\* the value sys_lci gave for exterior row idx (0 when it yielded none)
ValueAt(out, idx) ==
    SeqSum([k \in 1 .. Len(out) |->
               IF out[k].kind = "em" /\ out[k].row = idx THEN out[k].x.value ELSE 0])
\* the call of sys_lci on the one exchange x, with the arguments of the last call
Single(x) == sys_lci(<<x>>, last.quiet, last.kw)
Ended(r) == r.ok /\ r.err = ""
PairCall ==
    /\ last.op = "sys_lci" /\ Len(last.demand) = 2
    /\ last.demand[1].process = last.demand[2].process

WellOrdered(m) == \A x \in DOMAIN m.d : m.d[x] # 0 => x[1] > x[2]
RECURSIVE PathCount(_, _)
\* the number of distinct paths from i to j along the links of a well-ordered Af
PathCount(i, j) ==
    IF i = j THEN 1
    ELSE SeqSum([k \in 1 .. pdim |-> IF af.d[<<k - 1, i>>] # 0 THEN PathCount(k - 1, j) ELSE 0])
Times(q, x) == Len(SelectSeq(q, LAMBDA y : y = x))
TraverseCall ==
    last.op = "foreground" /\ last.traverse /\ <<last.process, last.ref_flow>> \in DOMAIN fg_index
TraverseWarning ==
    <<[text |-> "Warning: traversal of foreground SCC will never terminate", n |-> 0]>>

\* C17: on a well-ordered Af, foreground with traverse=True ends by itself;
\* when it raises nothing each foreground node has been expanded once for
\* each distinct path from the root to it, and one ExchDef has been yielded
\* for each link each time its parent was expanded.  With flattening off,
\* every call with traverse=True prints the 'will never terminate' warning,
\* also the call that raises before it yields anything.
C17_Traverse ==
    /\ (last.op = "foreground" /\ last.traverse /\ ~_FLATTEN_AF) => last.printed = TraverseWarning
    /\ (last.op = "foreground" /\ ~last.traverse) => last.printed = <<>>
    /\ (TraverseCall /\ WellOrdered(af)) =>
          LET root == fg_index[<<last.process, last.ref_flow>>]
              links == [k \in 1 .. Len(SelectSeq(last.out, LAMBDA it : it.kind = "af")) |->
                          <<SelectSeq(last.out, LAMBDA it : it.kind = "af")[k].row,
                            SelectSeq(last.out, LAMBDA it : it.kind = "af")[k].col>>]
          IN /\ last.done
             /\ last.out[1].x = ExchDef(last.process, last.ref_flow, fg[root].direction, NoTerm, 1)
             /\ last.err = "" =>
                   /\ \A j \in DOMAIN fg :
                         Times(last.expanded, j) =
                            IF j \in AfReach(root) THEN PathCount(root, j) ELSE 0
                   /\ \A x \in DOMAIN af.d :
                         Times(links, x) =
                            IF af.d[x] # 0 /\ x[2] \in AfReach(root)
                            THEN PathCount(root, x[2]) ELSE 0
\* the last product flow is reached over two paths and expanded twice
C17_Witness ==
    /\ TraverseCall /\ WellOrdered(af) /\ last.err = "" /\ last.done
    /\ fg_index[<<last.process, last.ref_flow>>] = 0
    /\ Times(last.expanded, 2) = 2
    /\ last.printed = TraverseWarning

\* the product flow of the last surface call has a non-zero exterior entry
EmitsExterior ==
    LET key == <<last.process_ref, last.flow_ref>>
    IN IF key \in DOMAIN bg_index
       THEN B # None /\ \E i \in DOMAIN ex : Val(B).d[<<i, bg_index[key]>>] # 0
       ELSE key \in DOMAIN fg_index /\ \E i \in DOMAIN ex : bf.d[<<i, fg_index[key]>>] # 0

\* C18: whether the surface holds a flat background restored from a file by
\* from_file or gets one from its archive, the context map has been built
\* when a query that emits exterior exchanges runs, and the query yields them.
C18_AsStated ==
    (last.op = "surface.exterior" /\ last.ran /\ EmitsExterior) =>
        context_map # None /\ last.err = ""

(***************************************************************************)
(* Flattening.  The engine hands over its foreground matrix af and its     *)
(* Tarjan stack ts; no FlatBackground is made of them yet, so the engine's *)
(* output is kept in last.  The product flows of ts are numbered 0 (a      *)
(* background product flow that depends on itself) and 1 .. SplitDim (the  *)
(* foreground product flows, fg_dict giving index k - 1 to product flow k).*)
(***************************************************************************)
SplitDim == 4
\* the entries that may be non-zero: inside {0, 1}, inside {2, 3}, and between them
SplitSlots ==
    {<<0, 1>>, <<1, 0>>, <<0, 0>>, <<2, 3>>, <<3, 2>>, <<3, 3>>, <<2, 0>>, <<3, 1>>, <<0, 2>>}
SplitMatrices == {MatOf(SplitDim, SplitDim, nz) : nz \in [SplitSlots -> {0, 1}]}
\* the SCC of foreground index i in m
SccOf(m, i) == {i} \cup {j \in Descendants(m, i) : i \in Descendants(m, j)}
\* the Tarjan stack of an engine with foreground matrix m: an SCC is
\* non-trivial when it has several nodes or a self-loop, and background when
\* it depends on a background product flow
TarjanStack(m) ==
    [sccs |-> {[members |-> {0}, nontrivial |-> TRUE, background |-> TRUE]}
              \cup {[members |-> {j + 1 : j \in SccOf(m, i)},
                     nontrivial |-> i \in Descendants(m, i),
                     background |-> FALSE] : i \in 0 .. NRows(m) - 1},
     fg_dict |-> [k \in 1 .. NRows(m) |-> k - 1]]
nontrivial_sccs(ts) == {s \in ts.sccs : s.nontrivial}

\* _determine_scc_inds(ts)
_determine_scc_inds(ts) ==
    {ts.fg_dict[k] : k \in UNION {s.members : s \in {t \in nontrivial_sccs(ts) : ~t.background}}}

\* split_af(_af, _inds): (_af_non, _af_scc)
split_af(_af, _inds) ==
    [non |-> Mat(NRows(_af), NCols(_af),
                 [x \in DOMAIN _af.d |->
                     IF x[1] \in _inds /\ x[2] \in _inds THEN 0 ELSE _af.d[x]]),
     scc |-> Mat(NRows(_af), NCols(_af),
                 [x \in DOMAIN _af.d |->
                     IF x[1] \in _inds /\ x[2] \in _inds THEN _af.d[x] ELSE 0])]

InitSplit ==
    \E m \in SplitMatrices :
        LET c == Built(EmptySystem, FALSE)
        IN /\ fg = c.fg /\ bg = c.bg /\ ex = c.ex
           /\ af = c.af /\ ad = c.ad /\ bf = c.bf
           /\ A = c.A /\ B = c.B /\ lu = c.lu
           /\ fg_index = c.fg_index /\ bg_index = c.bg_index /\ ex_index = c.ex_index
           /\ context_map = None
           /\ nfactor = 0
           /\ disk = <<>>
           /\ _flat = FALSE
           /\ _archive = "TarjanBackground"
           /\ last = [op |-> "make_foreground", af |-> m, ts |-> TarjanStack(m)]

\* the first two lines of flatten(af, ad, bf, ts)
SplitAf ==
    /\ last.op = "make_foreground"
    /\ last' = [op |-> "split_af", _af |-> last.af, ts |-> last.ts,
                _inds |-> _determine_scc_inds(last.ts)]
               @@ split_af(last.af, _determine_scc_inds(last.ts))
    /\ Reads

NextSplit == SplitAf

SpecSplit == InitSplit /\ [][NextSplit]_vars

\* r and c are foreground indices of one non-trivial foreground SCC of ts
SameScc(ts, r, c) ==
    \E s \in nontrivial_sccs(ts) :
        ~s.background /\ r + 1 \in s.members /\ c + 1 \in s.members

\* C19: split_af puts a non-zero entry Af[r,c] into Af_scc when r and c are
\* in the same non-trivial foreground SCC and into Af_non otherwise, also
\* when r and c are in two different non-trivial foreground SCCs; every entry
\* is in exactly one of the two, and Af_non + Af_scc = Af.
C19_AsStated ==
    last.op = "split_af" =>
        /\ \A x \in DOMAIN last._af.d :
              last._af.d[x] # 0 =>
                 IF SameScc(last.ts, x[1], x[2])
                 THEN last.scc.d[x] = last._af.d[x] /\ last.non.d[x] = 0
                 ELSE last.non.d[x] = last._af.d[x] /\ last.scc.d[x] = 0
        /\ Plus(last.non, last.scc) = last._af

\* the background solve that a solver argument asks for
MethodAsked(solver) ==
    CASE solver = "factorize" -> "lu" [] solver = "spsolve" -> "spsolve" [] OTHER -> "iterative"

\* C20: a call of lci or sys_lci that runs a background solve runs the one
\* its own solver argument asks for, whatever the calls before it were: the
\* stored factorization for solver=factorize and for no other call.
C20_AsStated ==
    (last.op \in {"lci", "sys_lci"} /\ last.method \in {"lu", "spsolve", "iterative"}) =>
        last.method = MethodAsked(last.kw.solver)

(***************************************************************************)
(* The exterior queries of the surface on edited systems, so that one      *)
(* product flow can have exchanges with an elementary and with another     *)
(* context.                                                                *)
(***************************************************************************)
InitExterior ==
    \E base \in Bases, E \in EditSets(MaxEdit), complete \in BOOLEAN :
        /\ FreshObject(Built(Edited(base, E), complete))
        /\ disk = <<>>
        /\ _flat \in BOOLEAN
        /\ _archive \in {"TarjanBackground", "LcArchive"}
NextExterior ==
    \/ Return
    \/ CheckBgReset
    \/ SurfaceExterior
    \/ SurfaceEmissions
    \/ SurfaceCutoffs
SpecExterior == InitExterior /\ [][NextExterior]_vars

\* the exterior exchanges of the product flow of the last call, and what
\* emissions and cutoffs yield for it on the object as the call has left it
ExteriorOfLast == exterior(last.process_ref, last.flow_ref)
EmissionsOfLast == emissions(ExteriorOfLast)
CutoffsOfLast == cutoffs(ExteriorOfLast)

\* C21: emissions and cutoffs partition what exterior yields for the product
\* flow: each exterior exchange is yielded by exactly one of the two, in the
\* order of exterior; emissions yields those whose termination is an
\* elementary context and cutoffs all the others; and the two end as
\* exterior ends.
C21_Partition ==
    (last.op \in {"surface.emissions", "surface.cutoffs"} /\ last.ran) =>
        /\ last.out = IF last.op = "surface.emissions" THEN EmissionsOfLast.out
                      ELSE CutoffsOfLast.out
        /\ last.err = ExteriorOfLast.err
        /\ \A k \in 1 .. Len(ExteriorOfLast.out) :
              LET it == ExteriorOfLast.out[k]
              IN /\ Times(EmissionsOfLast.out, it) + Times(CutoffsOfLast.out, it) = 1
                 /\ Times(EmissionsOfLast.out, it) = 1 <=>
                       /\ it.x.term.kind = "context"
                       /\ it.x.term.ref \in ElementaryContexts
        /\ Len(EmissionsOfLast.out) + Len(CutoffsOfLast.out) = Len(ExteriorOfLast.out)
\* a product flow with an elementary and a non-elementary exterior exchange
C21_Witness ==
    /\ last.op = "surface.cutoffs" /\ last.ran /\ last.err = ""
    /\ Len(ExteriorOfLast.out) = 2
    /\ Len(last.out) = 1 /\ Len(EmissionsOfLast.out) = 1
    /\ last.out[1].x.term = CtxTerm("water")

====
